---------------------------- MODULE Spec2Model ----------------------------
(***************************************************************************)
(* The privatized-object registry of runtime/src/chpl-privatization.c:     *)
(* two instance records, the current-instance index, the blocks they       *)
(* share, the roster of per-thread status nodes and the writer lock.       *)
(*                                                                         *)
(* Every thread runs calls of the public functions; a call is cut into     *)
(* steps at its accesses to shared memory, one action per step, and the    *)
(* steps of different threads interleave (sequentially consistent          *)
(* memory).  The heap is explicit: a blocks vector and a block are         *)
(* numbered objects, so that two instances sharing a block, a freed        *)
(* vector and an index past the end of a vector are all visible.  An       *)
(* access through a null, freed or too short vector is undefined in C: the *)
(* model lets it yield any pointer, and an access through a pointer that   *)
(* is no block of the registry ends the process (crashed).                 *)
(***************************************************************************)
EXTENDS Integers, Sequences, FiniteSets, TLC

\* ------------------------------------------------------------ constants
CHPL_PRIVATIZATION_BLOCK_SIZE == 1024

\* uint8_t status: the value the field holds after "status = -1"
STATUS_IDLE == 255

\* ------------------------------------------------------------ bounds
NumThreads == 3      \* threads of a concurrent run
ConcBlock == 1       \* a concurrent run's pids lie in blocks 0 .. ConcBlock
MaxBlock == 2        \* a single-threaded run's pids: blocks 0 .. MaxBlock,
MaxSlot == 1         \*   slots 0 .. MaxSlot of each block
MaxVal == 2          \* a single-threaded run publishes the pointers 1 .. MaxVal
SeqCalls == 3        \* calls of a single-threaded run

Threads == 1 .. NumThreads
NULL == 0
Values == 1 .. (IF MaxVal > NumThreads THEN MaxVal ELSE NumThreads)
Pointers == Values \cup {NULL}
Slots == 0 .. MaxSlot
PidsIn(blocks, slots) ==
  { b * CHPL_PRIVATIZATION_BLOCK_SIZE + s : b \in blocks, s \in slots }
Pids == PidsIn(0 .. (IF MaxBlock > ConcBlock THEN MaxBlock ELSE ConcBlock), Slots)
Ops == {"publish", "get", "clear", "capacity"}

\* the calls with an operation of ops, a pid of pids and, for a publish, a
\* pointer of vals
Calls(ops, pids, vals) ==
  { c \in [op : ops, pid : pids, v : vals \cup {NULL}] :
      /\ (c.op = "publish") = (c.v # NULL)
      /\ c.op = "capacity" => c.pid = 0 }

\* the calls of a concurrent run: threads 1 and 2 each make one call, of any
\* operation, on the first slot of a block, publishing a pointer of their own;
\* a further thread asks once for the capacity
ConcMenu(t) ==
  IF t <= 2 THEN Calls(Ops, PidsIn(0 .. ConcBlock, {0}), {t})
            ELSE Calls({"capacity"}, {0}, {})

\* the calls of a run in which the registry can grow twice, so that an
\* instance record is rebuilt: thread 1 reads or clears pid 0, thread 2
\* publishes to block ConcBlock, and a further thread asks for the capacity or
\* publishes to the highest block
GrowMenu(t) ==
  IF t = 1 THEN Calls({"get", "clear", "capacity"}, {0}, {})
  ELSE IF t = 2 THEN Calls({"publish"}, PidsIn({ConcBlock}, {0}), {t})
  ELSE Calls({"capacity"}, {0}, {}) \cup Calls({"publish"}, PidsIn({MaxBlock}, {0}), {t})

\* the calls of a single-threaded run: thread 1 makes SeqCalls calls
SeqMenu(t) == IF t = 1 THEN Calls(Ops, PidsIn(0 .. MaxBlock, Slots), 1 .. MaxVal) ELSE {}

VARIABLES
  currentInstanceIdx,  \* atomic_int_least8_t currentInstanceIdx
  instBlocks,          \* chpl_priv_instances[i].blocks: a vector id, NULL if none
  instLen,             \* chpl_priv_instances[i].len
  vectors,             \* heap of blocks vectors: id -> [blk: block ids, live]
  blockMem,            \* heap of blocks: id -> [slot -> pointer]
  tls_list,            \* head of the roster: a node id, NULL if empty
  nodes,               \* heap of tls_node_t: id -> [in_use, status, next]; the
                       \* node that thread t allocates has id t
  reader_tls,          \* pthread key reader_tls: thread -> node id, NULL if unset
  writeLock,           \* the thread holding writeLock, NULL if free
  th,                  \* each thread's position and locals
  crashed,             \* the thread whose access faulted and ended the process
  menu,                \* the calls each thread makes in this run (never changes)
  left,                \* the number of calls each thread may still start
  expect,              \* history: thread -> pid -> the pointers the thread's own
                       \* completed publish or clear of the pid lets its next get
                       \* return ({} when it has none to go by)
  published,           \* history: pid -> the pointers passed to a publish of it
  capSeen              \* history: the largest result a capacity call returned

vars == << currentInstanceIdx, instBlocks, instLen, vectors, blockMem, tls_list,
           nodes, reader_tls, writeLock, th, crashed, menu, left, expect,
           published, capSeen >>

registry == << currentInstanceIdx, instBlocks, instLen, vectors, blockMem >>
roster == << tls_list, nodes, reader_tls >>
history == << expect, published, capSeen >>
run == << crashed, menu, left >>

\* ------------------------------------------------------------ helpers
blockIdxOf(pid) == pid \div CHPL_PRIVATIZATION_BLOCK_SIZE
idxOf(pid) == pid % CHPL_PRIVATIZATION_BLOCK_SIZE

\* variant: the block is allocated without being zeroed
chpl_priv_block_create_dirty == [s \in Slots |-> 1]

\* chpl_priv_block_create: a block of zeroed slots
chpl_priv_block_create == [s \in Slots |-> NULL]

\* a thread with no call in progress; locks and grows count, for the call in
\* progress, its acquireWrite()s and its stores to currentInstanceIdx
IdleLocals == [pc |-> "idle", op |-> "none", pid |-> 0, v |-> NULL, instIdx |-> 0,
               wIdx |-> 0, curr |-> NULL, ret |-> 0, capLo |-> 0,
               locks |-> 0, grows |-> 0]

\* whether the expression chpl_priv_instances[i].blocks[b] is a defined access:
\* the vector is there, is not freed and has an element b
ValidAccess(i, b) ==
  LET vec == instBlocks[i] IN
  vec # NULL /\ vectors[vec].live /\ b < Len(vectors[vec].blk)

\* the values that expression can yield: the block stored there, or, read
\* through a null, freed or too short vector, any pointer at all: some block,
\* or (NULL) no block of the registry
BlockPtr(i, b) ==
  IF ValidAccess(i, b)
    THEN { vectors[instBlocks[i]].blk[b + 1] }
    ELSE (1 .. Len(blockMem)) \cup {NULL}

\* thread t is at label, and no access has faulted: a fault ends the process
At(t, label) == crashed = NULL /\ th[t].pc = label

Goto(t, label) == th' = [th EXCEPT ![t].pc = label]

\* the threads other than t with a call op(pid) in progress
Others(t, op, pid) == { u \in Threads \ {t} : th[u].op = op /\ th[u].pid = pid }

\* a node no thread has allocated yet
NoNode == [in_use |-> FALSE, status |-> 0, next |-> NULL]

\* calloc of a node, and "node->status = -1": in_use stays false
NewNode == [in_use |-> FALSE, status |-> STATUS_IDLE, next |-> NULL]

\* ------------------------------------------------------------ initial state
\* chpl_privatization_init; the statics are zero
chpl_privatization_init ==
  /\ currentInstanceIdx = 0
  /\ vectors = << [blk |-> << 1 >>, live |-> TRUE] >>
  /\ blockMem = << chpl_priv_block_create >>
  /\ instBlocks = [i \in 0 .. 1 |-> IF i = 0 THEN 1 ELSE NULL]
  /\ instLen = [i \in 0 .. 1 |-> IF i = 0 THEN 1 ELSE 0]
  /\ tls_list = NULL
  /\ writeLock = NULL
  /\ th = [t \in Threads |-> IdleLocals]
  /\ crashed = NULL
  /\ capSeen = 0

\* no thread has called into the registry yet
Fresh ==
  /\ nodes = [n \in Threads |-> NoNode]
  /\ reader_tls = [t \in Threads |-> NULL]
  /\ expect = [t \in Threads |-> [p \in Pids |-> {}]]
  /\ published = [p \in Pids |-> {}]

\* a concurrent run from the state after initialization
Init ==
  /\ chpl_privatization_init
  /\ Fresh
  /\ menu = [t \in Threads |-> ConcMenu(t)]
  /\ left = [t \in Threads |-> 1]

\* a single-threaded run from the state after initialization
SeqInit ==
  /\ chpl_privatization_init
  /\ Fresh
  /\ menu = [t \in Threads |-> SeqMenu(t)]
  /\ left = [t \in Threads |-> IF t = 1 THEN SeqCalls ELSE 0]

\* ------------------------------------------------------------ calls
\* the first steps of acquireRead: node = pthread_getspecific(reader_tls); with
\* no node yet init_tls starts its walk at curr = tls_list, and with one the
\* loop loads instIdx = currentInstanceIdx
Enter(t, locals) ==
  IF reader_tls[t] = NULL
    THEN IF tls_list # NULL
           THEN [locals EXCEPT !.pc = "tls_test", !.curr = tls_list]
           ELSE [locals EXCEPT !.pc = "tls_alloc"]
    ELSE [locals EXCEPT !.pc = "ar_store", !.instIdx = currentInstanceIdx]

\* A thread calls chpl_newPrivatizedClass(v, pid), chpl_getPrivatizedClass(pid),
\* chpl_clearPrivatizedClass(pid) or chpl_numPrivatizedClasses().
Call(t) ==
  /\ At(t, "idle")
  /\ left[t] > 0
  /\ left' = [left EXCEPT ![t] = @ - 1]
  /\ \E c \in menu[t] :
       /\ th' = [th EXCEPT ![t] = Enter(t, [IdleLocals EXCEPT
                   !.op = c.op, !.pid = c.pid, !.v = c.v,
                   !.capLo = IF c.op = "capacity" THEN capSeen ELSE 0])]
       /\ published' = IF c.op = "publish"
                         THEN [published EXCEPT ![c.pid] = @ \cup {c.v}]
                         ELSE published
       /\ expect' = [u \in Threads |->
                       IF u = t \/ expect[u][c.pid] = {} THEN expect[u]
                       ELSE IF c.op = "publish" THEN [expect[u] EXCEPT ![c.pid] = @ \cup {c.v}]
                       ELSE IF c.op = "clear" THEN [expect[u] EXCEPT ![c.pid] = {}]
                       ELSE expect[u]]
  /\ UNCHANGED << registry, roster, writeLock, crashed, menu, capSeen >>

\* ------------------------------------------------------------ init_tls
\* for (...; curr != NULL; curr = curr->next): the walk goes on to node n,
\* and falls out of the loop past the last node
WalkTo(t, n) ==
  IF n # NULL
    THEN th' = [th EXCEPT ![t].pc = "tls_test", ![t].curr = n]
    ELSE th' = [th EXCEPT ![t].pc = "tls_alloc", ![t].curr = NULL]

\* if (curr->in_use || ...: the volatile read of in_use
init_tls_test(t) ==
  /\ At(t, "tls_test")
  /\ IF nodes[th[t].curr].in_use
       THEN WalkTo(t, nodes[th[t].curr].next)
       ELSE Goto(t, "tls_cas")
  /\ UNCHANGED << registry, roster, writeLock, run, history >>

\* ... || __sync_bool_compare_and_swap(&curr->in_use, false, true)) continue;
\* pthread_setspecific(reader_tls, curr); return;
\* The thread walks on when the swap succeeds and binds the node when it
\* fails; acquireRead then loads instIdx.
init_tls_cas(t) ==
  /\ At(t, "tls_cas")
  /\ LET c == th[t].curr IN
     IF nodes[c].in_use = FALSE
       THEN /\ nodes' = [nodes EXCEPT ![c].in_use = TRUE]
            /\ WalkTo(t, nodes[c].next)
            /\ reader_tls' = reader_tls
       ELSE /\ reader_tls' = [reader_tls EXCEPT ![t] = c]
            /\ th' = [th EXCEPT ![t].pc = "ar_load", ![t].curr = NULL]
            /\ nodes' = nodes
  /\ UNCHANGED << registry, tls_list, writeLock, run, history >>

\* node = chpl_calloc(1, sizeof(*node)); node->status = -1;
\* do { old_head = tls_list; node->next = old_head;
init_tls_alloc(t) ==
  /\ At(t, "tls_alloc")
  /\ nodes' = [nodes EXCEPT ![t] = [NewNode EXCEPT !.next = tls_list]]
  /\ Goto(t, "tls_push")
  /\ UNCHANGED << registry, tls_list, reader_tls, writeLock, run, history >>

\* variant: the head is stored without comparing it with old_head
init_tls_push_blind(t) ==
  /\ At(t, "tls_push")
  /\ LET node == t IN
     /\ tls_list' = node
     /\ reader_tls' = [reader_tls EXCEPT ![t] = node]
     /\ Goto(t, "ar_load")
  /\ UNCHANGED << registry, nodes, writeLock, run, history >>

\* } while (!__sync_bool_compare_and_swap(&tls_list, old_head, node));
\* pthread_setspecific(reader_tls, node);
init_tls_push(t) ==
  /\ At(t, "tls_push")
  /\ LET node == t IN
     IF tls_list = nodes[node].next
       THEN /\ tls_list' = node
            /\ reader_tls' = [reader_tls EXCEPT ![t] = node]
            /\ Goto(t, "ar_load")
       ELSE /\ Goto(t, "tls_retry")
            /\ UNCHANGED << tls_list, reader_tls >>
  /\ UNCHANGED << registry, nodes, writeLock, run, history >>

\* the next round of the do loop: old_head = tls_list; node->next = old_head;
init_tls_retry(t) ==
  /\ At(t, "tls_retry")
  /\ nodes' = [nodes EXCEPT ![t].next = tls_list]
  /\ Goto(t, "tls_push")
  /\ UNCHANGED << registry, tls_list, reader_tls, writeLock, run, history >>

\* ------------------------------------------------------------ acquireRead
\* instIdx = atomic_load_int_least8_t(&currentInstanceIdx);
acquireRead_load(t) ==
  /\ At(t, "ar_load")
  /\ th' = [th EXCEPT ![t].pc = "ar_store", ![t].instIdx = currentInstanceIdx]
  /\ UNCHANGED << registry, roster, writeLock, run, history >>

\* node->status = instIdx;
acquireRead_store(t) ==
  /\ At(t, "ar_store")
  /\ nodes' = [nodes EXCEPT ![reader_tls[t]].status = th[t].instIdx]
  /\ Goto(t, "ar_check")
  /\ UNCHANGED << registry, tls_list, reader_tls, writeLock, run, history >>

\* the label at which the caller of acquireRead goes on
Body(op) ==
  CASE op = "publish" -> "pub_check"
    [] op = "get" -> "get_read"
    [] op = "clear" -> "clear_store"
    [] op = "capacity" -> "cap_read"

\* variant: the loop also waits for the writer's mutex to be free
acquireRead_check_wait(t) ==
  /\ At(t, "ar_check")
  /\ writeLock = NULL
  /\ Goto(t, IF th[t].instIdx # currentInstanceIdx THEN "ar_load" ELSE Body(th[t].op))
  /\ UNCHANGED << registry, roster, writeLock, run, history >>

\* } while (instIdx != atomic_load_int_least8_t(&currentInstanceIdx));
acquireRead_check(t) ==
  /\ At(t, "ar_check")
  /\ Goto(t, IF th[t].instIdx # currentInstanceIdx THEN "ar_load" ELSE Body(th[t].op))
  /\ UNCHANGED << registry, roster, writeLock, run, history >>

\* what the thread's completed publish or clear of pid lets its next get of the
\* pid return: the pointer it stored, or one of a publish still in progress;
\* nothing to go by while another thread's clear of the pid is in progress
Expectation(t, pid, v) ==
  IF v # NULL /\ Others(t, "clear", pid) # {}
    THEN {}
    ELSE {v} \cup { th[u].v : u \in Others(t, "publish", pid) }

\* releaseRead: node->status = -1; and the call returns
releaseRead(t) ==
  /\ At(t, "release")
  /\ nodes' = [nodes EXCEPT ![reader_tls[t]].status = STATUS_IDLE]
  /\ th' = [th EXCEPT ![t] = IdleLocals]
  /\ expect' = IF th[t].op \in {"publish", "clear"}
                 THEN [expect EXCEPT ![t][th[t].pid] = Expectation(t, th[t].pid, th[t].v)]
                 ELSE expect
  /\ capSeen' = IF th[t].op = "capacity" /\ th[t].ret > capSeen THEN th[t].ret ELSE capSeen
  /\ UNCHANGED << registry, tls_list, reader_tls, writeLock, run, published >>

\* ------------------------------------------------------------ readers
\* ret = chpl_priv_instances[rcIdx].blocks[blockIdx][idx];
\* read through an undefined access, the slot holds anything
chpl_getPrivatizedClass(t) ==
  /\ At(t, "get_read")
  /\ LET rcIdx == th[t].instIdx
         blockIdx == blockIdxOf(th[t].pid)
         idx == idxOf(th[t].pid)
     IN \E bp \in BlockPtr(rcIdx, blockIdx) :
          IF bp = NULL
            THEN crashed' = t /\ th' = th
            ELSE /\ crashed' = NULL
                 /\ \E r \in IF ValidAccess(rcIdx, blockIdx)
                               THEN { blockMem[bp][idx] } ELSE Pointers :
                      th' = [th EXCEPT ![t].pc = "release", ![t].ret = r]
  /\ UNCHANGED << registry, roster, writeLock, menu, left, history >>

\* the store "block[idx] = v" through block pointer bp: into the block's slot,
\* and a fault when bp is no block of the registry
StoreThrough(t, bp, v) ==
  IF bp = NULL
    THEN crashed' = t /\ UNCHANGED << blockMem, th >>
    ELSE /\ crashed' = NULL
         /\ blockMem' = [blockMem EXCEPT ![bp][idxOf(th[t].pid)] = v]
         /\ Goto(t, "release")

\* chpl_priv_instances[rcIdx].blocks[blockIdx][idx] = NULL;
chpl_clearPrivatizedClass(t) ==
  /\ At(t, "clear_store")
  /\ \E bp \in BlockPtr(th[t].instIdx, blockIdxOf(th[t].pid)) :
       StoreThrough(t, bp, NULL)
  /\ UNCHANGED << currentInstanceIdx, instBlocks, instLen, vectors, roster,
                  writeLock, menu, left, history >>

\* ret = chpl_priv_instances[rcIdx].len * CHPL_PRIVATIZATION_BLOCK_SIZE;
chpl_numPrivatizedClasses(t) ==
  /\ At(t, "cap_read")
  /\ th' = [th EXCEPT ![t].pc = "release",
                      ![t].ret = instLen[th[t].instIdx] * CHPL_PRIVATIZATION_BLOCK_SIZE]
  /\ UNCHANGED << registry, roster, writeLock, run, history >>

\* ------------------------------------------------------------ publish
\* variant: the test is "blockIdx > len"
newPrivatizedClass_check_gt(t) ==
  /\ At(t, "pub_check")
  /\ Goto(t, IF blockIdxOf(th[t].pid) > instLen[th[t].instIdx]
               THEN "w_release" ELSE "pub_store")
  /\ UNCHANGED << registry, roster, writeLock, run, history >>

\* if (blockIdx >= chpl_priv_instances[rcIdx].len)
newPrivatizedClass_check(t) ==
  /\ At(t, "pub_check")
  /\ Goto(t, IF blockIdxOf(th[t].pid) >= instLen[th[t].instIdx]
               THEN "w_release" ELSE "pub_store")
  /\ UNCHANGED << registry, roster, writeLock, run, history >>

\* chpl_priv_instances[rcIdx].blocks[blockIdx][idx] = v;
newPrivatizedClass_store(t) ==
  /\ At(t, "pub_store")
  /\ \E bp \in BlockPtr(th[t].instIdx, blockIdxOf(th[t].pid)) :
       StoreThrough(t, bp, th[t].v)
  /\ UNCHANGED << currentInstanceIdx, instBlocks, instLen, vectors, roster,
                  writeLock, menu, left, history >>

\* releaseRead(rcIdx) on the way to becoming the writer
newPrivatizedClass_release(t) ==
  /\ At(t, "w_release")
  /\ nodes' = [nodes EXCEPT ![reader_tls[t]].status = STATUS_IDLE]
  /\ Goto(t, "w_lock")
  /\ UNCHANGED << registry, tls_list, reader_tls, writeLock, run, history >>

\* chpl_sync_lock(&writeLock): taken when no thread holds it
LockFree == writeLock = NULL

\* variant: the write section is entered without taking the mutex
acquireWrite_nolock(t) ==
  /\ At(t, "w_lock")
  /\ writeLock' = t
  /\ th' = [th EXCEPT ![t].pc = "w_delta", ![t].locks = @ + 1]
  /\ UNCHANGED << registry, roster, run, history >>

\* acquireWrite()
acquireWrite(t) ==
  /\ At(t, "w_lock")
  /\ LockFree
  /\ writeLock' = t
  /\ th' = [th EXCEPT ![t].pc = "w_delta", ![t].locks = @ + 1]
  /\ UNCHANGED << registry, roster, run, history >>

\* releaseWrite(): chpl_sync_unlock(&writeLock)
releaseWrite == writeLock' = NULL

\* variant: the writer grows without looking at deltaBlocks
newPrivatizedClass_delta_always(t) ==
  /\ At(t, "w_delta")
  /\ th' = [th EXCEPT ![t].pc = "w_build", ![t].wIdx = currentInstanceIdx]
  /\ UNCHANGED << registry, roster, writeLock, run, history >>

\* instIdx = getCurrentInstanceIdx(); deltaBlocks = (blockIdx + 1) - len;
\* if (deltaBlocks <= 0) { releaseWrite(); continue; }
newPrivatizedClass_delta(t) ==
  /\ At(t, "w_delta")
  /\ LET deltaBlocks == (blockIdxOf(th[t].pid) + 1) - instLen[currentInstanceIdx] IN
     IF deltaBlocks <= 0
       THEN /\ releaseWrite
            /\ Goto(t, "ar_load")
       ELSE /\ th' = [th EXCEPT ![t].pc = "w_build", ![t].wIdx = currentInstanceIdx]
            /\ writeLock' = writeLock
  /\ UNCHANGED << registry, roster, run, history >>

\* the new vector: the old vector's block pointers (chpl_memcpy of len
\* pointers), then a fresh block for each index from len to blockIdx
NewBlocks(oldBlk, blockIdx, firstFree) ==
  [i \in 1 .. blockIdx + 1 |->
     IF i <= Len(oldBlk) THEN oldBlk[i] ELSE firstFree + (i - Len(oldBlk)) - 1]

\* newInstIdx = !getCurrentInstanceIdx(); newBlocks = chpl_mem_allocManyZero;
\* chpl_memcpy; the fill loop; chpl_priv_instances[newInstIdx].blocks = newBlocks;
newPrivatizedClass_build(t) ==
  /\ At(t, "w_build")
  /\ LET instIdx == th[t].wIdx
         newInstIdx == 1 - currentInstanceIdx
         blockIdx == blockIdxOf(th[t].pid)
         oldBlk == vectors[instBlocks[instIdx]].blk
         fresh == (blockIdx + 1) - Len(oldBlk)
     IN /\ vectors' = Append(vectors,
                        [blk |-> NewBlocks(oldBlk, blockIdx, Len(blockMem) + 1),
                         live |-> TRUE])
        /\ blockMem' = blockMem \o [k \in 1 .. fresh |-> chpl_priv_block_create]
        /\ instBlocks' = [instBlocks EXCEPT ![newInstIdx] = Len(vectors) + 1]
  /\ Goto(t, "w_len")
  /\ UNCHANGED << currentInstanceIdx, instLen, roster, writeLock, run, history >>

\* variant: the new instance's len is left as it was
newPrivatizedClass_len_skip(t) ==
  /\ At(t, "w_len")
  /\ Goto(t, "w_swap")
  /\ UNCHANGED << registry, roster, writeLock, run, history >>

\* chpl_priv_instances[newInstIdx].len = blockIdx + 1;
newPrivatizedClass_len(t) ==
  /\ At(t, "w_len")
  /\ instLen' = [instLen EXCEPT ![1 - th[t].wIdx] = blockIdxOf(th[t].pid) + 1]
  /\ Goto(t, "w_swap")
  /\ UNCHANGED << currentInstanceIdx, instBlocks, vectors, blockMem, roster,
                  writeLock, run, history >>

\* variant: the store to currentInstanceIdx stores instIdx, not newInstIdx
newPrivatizedClass_swap_same(t) ==
  /\ At(t, "w_swap")
  /\ currentInstanceIdx' = th[t].wIdx
  /\ th' = [th EXCEPT ![t].pc = "w_scan_first", ![t].grows = @ + 1]
  /\ UNCHANGED << instBlocks, instLen, vectors, blockMem, roster, writeLock,
                  run, history >>

\* atomic_store_int_least8_t(&currentInstanceIdx, newInstIdx);
newPrivatizedClass_swap(t) ==
  /\ At(t, "w_swap")
  /\ currentInstanceIdx' = 1 - th[t].wIdx
  /\ th' = [th EXCEPT ![t].pc = "w_scan_first", ![t].grows = @ + 1]
  /\ UNCHANGED << instBlocks, instLen, vectors, blockMem, roster, writeLock,
                  run, history >>

\* for (curr = tls_list; curr != NULL; ...
newPrivatizedClass_scan_first(t) ==
  /\ At(t, "w_scan_first")
  /\ th' = [th EXCEPT ![t].pc = IF tls_list = NULL THEN "w_free" ELSE "w_scan",
                      ![t].curr = tls_list]
  /\ UNCHANGED << registry, roster, writeLock, run, history >>

\* variant: the scan walks the roster without looking at status
newPrivatizedClass_scan_nowait(t) ==
  /\ At(t, "w_scan")
  /\ LET c == th[t].curr IN
     th' = [th EXCEPT ![t].pc = IF nodes[c].next = NULL THEN "w_free" ELSE "w_scan",
                      ![t].curr = nodes[c].next]
  /\ UNCHANGED << registry, roster, writeLock, run, history >>

\* while (curr->status == instIdx) chpl_task_yield(); then curr = curr->next
newPrivatizedClass_scan(t) ==
  /\ At(t, "w_scan")
  /\ LET c == th[t].curr IN
     IF nodes[c].status = th[t].wIdx
       THEN th' = th
       ELSE th' = [th EXCEPT ![t].pc = IF nodes[c].next = NULL THEN "w_free" ELSE "w_scan",
                             ![t].curr = nodes[c].next]
  /\ UNCHANGED << registry, roster, writeLock, run, history >>

\* variant: the writer frees the vector of the instance it has just swapped in
newPrivatizedClass_free_new(t) ==
  /\ At(t, "w_free")
  /\ vectors' = [vectors EXCEPT ![instBlocks[1 - th[t].wIdx]] = [blk |-> << >>, live |-> FALSE]]
  /\ Goto(t, "w_unlock")
  /\ UNCHANGED << currentInstanceIdx, instBlocks, instLen, blockMem, roster,
                  writeLock, run, history >>

\* chpl_mem_free(chpl_priv_instances[instIdx].blocks, 0, 0);
newPrivatizedClass_free(t) ==
  /\ At(t, "w_free")
  /\ vectors' = [vectors EXCEPT ![instBlocks[th[t].wIdx]] = [blk |-> << >>, live |-> FALSE]]
  /\ Goto(t, "w_unlock")
  /\ UNCHANGED << currentInstanceIdx, instBlocks, instLen, blockMem, roster,
                  writeLock, run, history >>

\* releaseWrite(); and the while (true) loop starts over with acquireRead
newPrivatizedClass_unlock(t) ==
  /\ At(t, "w_unlock")
  /\ releaseWrite
  /\ th' = [th EXCEPT ![t].pc = "ar_load", ![t].wIdx = 0, ![t].curr = NULL]
  /\ UNCHANGED << registry, roster, run, history >>

\* ------------------------------------------------------------ specification
Step(t) ==
  \/ Call(t)
  \/ init_tls_test(t)
  \/ init_tls_cas(t)
  \/ init_tls_alloc(t)
  \/ init_tls_push(t)
  \/ init_tls_retry(t)
  \/ acquireRead_load(t)
  \/ acquireRead_store(t)
  \/ acquireRead_check(t)
  \/ releaseRead(t)
  \/ chpl_getPrivatizedClass(t)
  \/ chpl_clearPrivatizedClass(t)
  \/ chpl_numPrivatizedClasses(t)
  \/ newPrivatizedClass_check(t)
  \/ newPrivatizedClass_store(t)
  \/ newPrivatizedClass_release(t)
  \/ acquireWrite(t)
  \/ newPrivatizedClass_delta(t)
  \/ newPrivatizedClass_build(t)
  \/ newPrivatizedClass_len(t)
  \/ newPrivatizedClass_swap(t)
  \/ newPrivatizedClass_scan_first(t)
  \/ newPrivatizedClass_scan(t)
  \/ newPrivatizedClass_free(t)
  \/ newPrivatizedClass_unlock(t)

Next == \E t \in Threads : Step(t)

Spec == Init /\ [][Next]_vars

\* The state after thread 1, alone, has completed
\* chpl_newPrivatizedClass(1, 0): the thread has its node, which heads the
\* roster, and slot 0 of block 0 holds the pointer.
Warm ==
  /\ currentInstanceIdx = 0
  /\ vectors = << [blk |-> << 1 >>, live |-> TRUE] >>
  /\ blockMem = << [chpl_priv_block_create EXCEPT ![0] = 1] >>
  /\ instBlocks = [i \in 0 .. 1 |-> IF i = 0 THEN 1 ELSE NULL]
  /\ instLen = [i \in 0 .. 1 |-> IF i = 0 THEN 1 ELSE 0]
  /\ tls_list = 1
  /\ nodes = [n \in Threads |-> IF n = 1 THEN NewNode ELSE NoNode]
  /\ reader_tls = [t \in Threads |-> IF t = 1 THEN 1 ELSE NULL]
  /\ writeLock = NULL
  /\ th = [t \in Threads |-> IdleLocals]
  /\ crashed = NULL
  /\ capSeen = 0
  /\ expect = [t \in Threads |-> [p \in Pids |-> IF t = 1 /\ p = 0 THEN {1} ELSE {}]]
  /\ published = [p \in Pids |-> IF p = 0 THEN {1} ELSE {}]

\* a concurrent run that starts there
WarmInit ==
  /\ Warm
  /\ menu = [t \in Threads |-> ConcMenu(t)]
  /\ left = [t \in Threads |-> 1]

WarmSpec == WarmInit /\ [][Next]_vars

\* a run that starts there and can grow the registry twice
GrowInit ==
  /\ Warm
  /\ menu = [t \in Threads |-> GrowMenu(t)]
  /\ left = [t \in Threads |-> 1]

GrowSpec == GrowInit /\ [][Next]_vars

\* A single thread has no other thread to lose a compare-and-swap to, nor a
\* roster to walk before it has a node of its own.
SeqStep(t) ==
  \/ Call(t)
  \/ init_tls_alloc(t)
  \/ init_tls_push(t)
  \/ acquireRead_load(t)
  \/ acquireRead_store(t)
  \/ acquireRead_check(t)
  \/ releaseRead(t)
  \/ chpl_getPrivatizedClass(t)
  \/ chpl_clearPrivatizedClass(t)
  \/ chpl_numPrivatizedClasses(t)
  \/ newPrivatizedClass_check(t)
  \/ newPrivatizedClass_store(t)
  \/ newPrivatizedClass_release(t)
  \/ acquireWrite(t)
  \/ newPrivatizedClass_delta(t)
  \/ newPrivatizedClass_build(t)
  \/ newPrivatizedClass_len(t)
  \/ newPrivatizedClass_swap(t)
  \/ newPrivatizedClass_scan_first(t)
  \/ newPrivatizedClass_scan(t)
  \/ newPrivatizedClass_free(t)
  \/ newPrivatizedClass_unlock(t)

SeqNext == \E t \in {1} : SeqStep(t)

SeqSpec == SeqInit /\ [][SeqNext]_vars
\* ------------------------------------------------------------ properties
\* the labels at which a thread is between acquireRead and releaseRead
ReadSection == {"pub_check", "pub_store", "get_read", "clear_store", "cap_read",
                "release", "w_release"}

\* the labels at which a thread is between acquireWrite and releaseWrite
WriteSection == {"w_delta", "w_build", "w_len", "w_swap", "w_scan_first", "w_scan",
                 "w_free", "w_unlock"}

\* the labels of the write section at which the new instance is being built,
\* swapped in and the old one retired (instIdx is held in wIdx)
GrowSection == WriteSection \ {"w_delta"}

\* the labels whose step goes through chpl_priv_instances[rcIdx].blocks
AccessLabels == {"pub_store", "get_read", "clear_store"}

\* the blocks vector of instance i is allocated and not freed
VectorLive(i) == instBlocks[i] # NULL /\ vectors[instBlocks[i]].live

\* len of the current instance
CurrentLen == instLen[currentInstanceIdx]

\* pid lies in a block of the current instance
Allocated(pid) == blockIdxOf(pid) < CurrentLen

\* the slot of pid in the current instance
SlotOf(pid) ==
  blockMem[vectors[instBlocks[currentInstanceIdx]].blk[blockIdxOf(pid) + 1]][idxOf(pid)]

Readers == {"get", "clear", "capacity"}

\* C1: a thread that is between acquireRead, which returned index i, and
\* releaseRead never takes a step that reads or writes through a blocks vector
\* of instance i that a writer has freed.
C1_ReaderSafety ==
  [][\A t \in Threads :
       (th[t].pc \in AccessLabels /\ (th'[t].pc # th[t].pc \/ crashed' = t))
         => VectorLive(th[t].instIdx)]_vars

\* C2: once a thread's publish(p, v) has returned, and no clear(p) has started
\* since, a get(p) by that thread returns v or a pointer of a publish(p, .)
\* that was in progress at that return or started later.
C2_NoLostPublish ==
  \A t \in Threads :
    (/\ th[t].pc = "release" /\ th[t].op = "get"
     /\ expect[t][th[t].pid] # {} /\ NULL \notin expect[t][th[t].pid])
      => th[t].ret \in expect[t][th[t].pid]

\* C3: in a single-threaded run, a get(pid) after a publish or clear of the pid
\* does not fault and returns the pointer of the most recent publish, null
\* after a more recent clear.
C3_PointCorrectness ==
  \A t \in Threads :
    (th[t].op = "get" /\ expect[t][th[t].pid] # {})
      => /\ crashed # t
         /\ th[t].pc = "release" => th[t].ret \in expect[t][th[t].pid]

\* C4: a get of a pid that no publish was ever called for does not fault and
\* returns null, also when the pid's block is not allocated.
C4_GetUnpublishedNull ==
  \A t \in Threads :
    (th[t].op = "get" /\ published[th[t].pid] = {})
      => /\ crashed # t
         /\ th[t].pc = "release" => th[t].ret = NULL

\* C5: no step of a publish(a, x) changes what the current instance holds for
\* a pid other than a: an allocated pid stays allocated and keeps its slot's
\* value, and a pid that the step allocates holds null.
C5_Independence ==
  [][\A t \in Threads : th[t].op = "publish" =>
       \A p \in Pids \ {th[t].pid} :
         /\ Allocated(p) => Allocated(p)' /\ SlotOf(p)' = SlotOf(p)
         /\ (~Allocated(p) /\ Allocated(p)') => SlotOf(p)' = NULL]_vars

C5_Witness ==
  \E t \in Threads : \E p \in Pids \ {th[t].pid}, q \in Pids \ {th[t].pid} :
    /\ th[t].op = "publish" /\ th[t].pc = "w_scan_first"
    /\ blockIdxOf(p) < instLen[th[t].wIdx] /\ SlotOf(p) # NULL
    /\ blockIdxOf(q) >= instLen[th[t].wIdx] /\ Allocated(q)

\* C6: len of the current instance never decreases, and the result of a
\* capacity call is at least every result returned before the call started.
C6_MonotoneCapacity ==
  /\ [][CurrentLen' >= CurrentLen]_vars
  /\ [](\A t \in Threads :
          (th[t].pc = "release" /\ th[t].op = "capacity") => th[t].ret >= th[t].capLo)

C6_Witness ==
  \E t \in Threads :
    /\ th[t].pc = "release" /\ th[t].op = "capacity"
    /\ th[t].capLo > 0 /\ th[t].ret > th[t].capLo

\* C7: at most one thread is between acquireWrite and releaseWrite, and it is
\* the holder of writeLock.
C7_WriterSerialization ==
  /\ Cardinality({ t \in Threads : th[t].pc \in WriteSection }) <= 1
  /\ \A t \in Threads : th[t].pc \in WriteSection => writeLock = t

C7_Witness ==
  \E t \in Threads, u \in Threads :
    th[t].pc \in GrowSection /\ th[u].pc = "w_lock"

\* C8: while a thread is growing the registry in publish(q, Y), a get(p) by
\* another thread, p # q in a block the old instance already had, does not
\* fault and returns null or a pointer that was published to p.
C8_ReadsUnaffectedByGrow ==
  \A t \in Threads : \A w \in Threads \ {t} :
    (/\ th[w].pc \in GrowSection
     /\ th[t].op = "get" /\ th[t].pid # th[w].pid
     /\ blockIdxOf(th[t].pid) < instLen[th[w].wIdx])
      => /\ crashed # t
         /\ th[t].pc = "release" => th[t].ret \in {NULL} \cup published[th[t].pid]

\* C9: every started call returns: no state is reached in which a call is in
\* progress and no thread can take a step.
C9_CallsComplete ==
  (\E t \in Threads : th[t].pc # "idle") => ENABLED Next

\* C10: a thread in get, clear or capacity never is at a label of the writer
\* path (it takes no mutex, scans no status, yields nowhere), always has a
\* step of its own to take, and goes round the loop of acquireRead again only
\* when currentInstanceIdx is no longer the index it loaded.
C10_ReadersNeverBlock ==
  /\ [](\A t \in Threads : th[t].op \in Readers =>
          /\ th[t].pc \notin WriteSection \cup {"w_release", "w_lock"}
          /\ writeLock # t
          /\ crashed = NULL => ENABLED Step(t))
  /\ [][\A t \in Threads :
          (th[t].op \in Readers /\ th[t].pc = "ar_check" /\ th'[t].pc = "ar_load")
            => currentInstanceIdx # th[t].instIdx]_vars

\* a reader goes round the loop of acquireRead again, its status still the
\* old index, while the writer that swapped holds the mutex and waits on it
C10_Witness ==
  \E t \in Threads, w \in Threads :
    /\ th[t].op \in Readers /\ th[t].pc = "ar_load"
    /\ th[t].instIdx # currentInstanceIdx
    /\ nodes[reader_tls[t]].status = th[t].instIdx
    /\ writeLock = w /\ th[w].pc = "w_scan" /\ th[w].curr = reader_tls[t]

\* a step that stores another index to currentInstanceIdx
SwapStep == currentInstanceIdx' # currentInstanceIdx

\* a step in which thread t takes writeLock
LockStep(t) == writeLock # t /\ writeLock' = t

\* a step in which thread t's call returns
ReturnStep(t) == th[t].pc = "release" /\ th'[t].pc = "idle"

\* the labels of the grow branch of chpl_newPrivatizedClass
GrowBranch == WriteSection \cup {"w_release", "w_lock"}

\* C11: in a single-threaded run, a publish whose block index is below the
\* current len is never in the grow branch and returns without having taken
\* the mutex or swapped; only a publish with block index b at or above the
\* current len takes the mutex and swaps, its swap leaves len = b + 1, and it
\* returns having swapped exactly once; get, clear and capacity never swap.
C11_GrowCount ==
  /\ [](\A t \in Threads :
          /\ (th[t].op = "publish" /\ blockIdxOf(th[t].pid) < CurrentLen /\ th[t].grows = 0)
               => (th[t].pc \notin GrowBranch /\ th[t].locks = 0)
          /\ (th[t].op = "publish" /\ blockIdxOf(th[t].pid) >= CurrentLen)
               => th[t].grows = 0
          /\ th[t].op \in Readers => (th[t].grows = 0 /\ th[t].locks = 0)
          /\ th[t].grows <= 1 /\ th[t].locks <= 1)
  /\ [][
       /\ SwapStep =>
            \E t \in Threads :
              /\ th[t].op = "publish" /\ th[t].pc = "w_swap"
              /\ blockIdxOf(th[t].pid) >= CurrentLen
              /\ CurrentLen' = blockIdxOf(th[t].pid) + 1
       /\ CurrentLen' # CurrentLen => SwapStep
       /\ \A t \in Threads :
            /\ LockStep(t) =>
                 (th[t].op = "publish" /\ blockIdxOf(th[t].pid) >= CurrentLen)
            /\ (ReturnStep(t) /\ th[t].op = "publish")
                 => (blockIdxOf(th[t].pid) < CurrentLen /\ th[t].grows = th[t].locks)
     ]_vars

\* publish(BLOCK_SIZE, v) has grown the registry once, and a following publish
\* of a pid of block 0 returns without a swap
C11_Witness ==
  \E t \in Threads :
    /\ th[t].pc = "release" /\ th[t].op = "publish"
    /\ blockIdxOf(th[t].pid) = 0 /\ th[t].grows = 0 /\ th[t].locks = 0
    /\ CurrentLen = 2 /\ currentInstanceIdx = 1 /\ Len(vectors) = 2

\* the nodes of the roster from node n on, following next
RECURSIVE ReachFrom(_)
ReachFrom(n) == IF n = NULL THEN {} ELSE {n} \cup ReachFrom(nodes[n].next)

\* the nodes of the roster
RosterNodes == ReachFrom(tls_list)

\* thread t is in the loop of acquireRead and will not leave it with index i:
\* it has yet to load the index, or to store it, or the test that follows
\* compares a loaded i with a current index that differs
LoopingOn(t, i) ==
  \/ th[t].pc \in {"ar_load", "ar_store"}
  \/ th[t].pc = "ar_check" /\ th[t].instIdx = i /\ currentInstanceIdx # i

\* C12: when a writer is about to free the blocks vector of the old instance
\* instIdx, no node of the roster has status equal to instIdx.
C12_QuiescenceBeforeFree ==
  \A w \in Threads : th[w].pc = "w_free" =>
    \A n \in RosterNodes : nodes[n].status # th[w].wIdx

\* C12, amended: when a writer is about to free the blocks vector of the old
\* instance instIdx, every node of the roster whose status equals instIdx is
\* the node of a thread that is still in the loop of acquireRead and cannot
\* leave it with instIdx (it stored an index it had loaded before the swap).
C12_QuiescenceAmended ==
  \A w \in Threads : th[w].pc = "w_free" =>
    \A n \in RosterNodes : nodes[n].status = th[w].wIdx =>
      \E t \in Threads : reader_tls[t] = n /\ LoopingOn(t, th[w].wIdx)

\* a writer about to free, and a reader that has stored the old index since
\* the scan passed its node
C12_Witness ==
  \E w \in Threads, t \in Threads :
    /\ th[w].pc = "w_free" /\ reader_tls[t] \in RosterNodes
    /\ nodes[reader_tls[t]].status = th[w].wIdx
    /\ th[t].pc = "ar_check" /\ th[t].instIdx = th[w].wIdx

\* the labels of init_tls
InitTlsLabels == {"tls_test", "tls_cas", "tls_alloc", "tls_push", "tls_retry"}

\* C13: every thread that is past init_tls in a call is bound to a node of the
\* roster, and no node is bound to two different threads.
C13_OneNodePerThread ==
  /\ \A t \in Threads :
       th[t].pc \notin InitTlsLabels \cup {"idle"} => reader_tls[t] \in RosterNodes
  /\ \A t \in Threads, u \in Threads :
       (t # u /\ reader_tls[t] # NULL) => reader_tls[t] # reader_tls[u]

\* C14: a thread in init_tls whose compare-and-swap of in_use succeeds binds
\* that node and allocates none; a thread whose compare-and-swap fails does
\* not bind the node; a thread allocates a node only when it reclaimed none.
C14_ReclaimThenCreate ==
  [][\A t \in Threads :
       (th[t].pc = "tls_cas" /\ th'[t].pc # "tls_cas") =>
         LET c == th[t].curr IN
         IF nodes[c].in_use = FALSE
           THEN reader_tls'[t] = c /\ th'[t].pc \notin InitTlsLabels
           ELSE reader_tls'[t] # c]_vars

\* the blocks above block 0 that a publish has been called for
PublishedBlocks == { blockIdxOf(p) : p \in { q \in Pids : published[q] # {} } } \ {0}

\* the number of blocks vectors built since chpl_privatization_init
Grown == Len(vectors) - 1

\* C15: publishes that race to grow for the same block grow once: there are
\* never more grows than distinct blocks published to (one, when all publishes
\* are for one block b), a swap leaves len = b + 1, a writer that takes the
\* mutex and finds its block allocated releases it and leaves the registry as
\* it is, and the store of a publish to the highest block published goes into
\* the pid's slot of the current instance.
C15_IdempotentGrowth ==
  /\ [](Grown <= Cardinality(PublishedBlocks))
  /\ [][
       /\ SwapStep =>
            \E t \in Threads : /\ th[t].pc = "w_swap"
                                /\ blockIdxOf(th[t].pid) >= CurrentLen
                                /\ CurrentLen' = blockIdxOf(th[t].pid) + 1
       /\ \A t \in Threads :
            /\ (th[t].pc = "w_delta" /\ th'[t].pc # "w_delta"
                   /\ blockIdxOf(th[t].pid) < CurrentLen)
                 => /\ UNCHANGED registry
                    /\ writeLock = t /\ writeLock' = NULL
                    /\ th'[t].pc = "ar_load"
            /\ (th[t].pc = "pub_store" /\ (th'[t].pc # "pub_store" \/ crashed' = t)
                   /\ \A b \in PublishedBlocks : b <= blockIdxOf(th[t].pid)
                   /\ blockIdxOf(th[t].pid) > 0)
                 => /\ crashed' = NULL
                    /\ ValidAccess(th[t].instIdx, blockIdxOf(th[t].pid))
                    /\ SlotOf(th[t].pid)' = th[t].v
     ]_vars

\* two publishes race for one block: one has grown the registry and is in its
\* scan, the other holds no lock yet and will find deltaBlocks <= 0
C15_Witness ==
  \E t \in Threads : \E u \in Threads \ {t} :
    /\ th[t].op = "publish" /\ th[u].op = "publish"
    /\ blockIdxOf(th[t].pid) = blockIdxOf(th[u].pid)
    /\ th[t].grows = 1 /\ th[t].pc = "release"
    /\ th[u].pc = "w_delta" /\ blockIdxOf(th[u].pid) < CurrentLen

\* C16: while a thread is between the return of acquireRead with index i and
\* its releaseRead, no step changes the blocks or the len field of instance
\* record i.
C16_ConsistentInstance ==
  [][\A t \in Threads :
       (th[t].pc \in ReadSection /\ th'[t].pc \in ReadSection) =>
         /\ instBlocks'[th[t].instIdx] = instBlocks[th[t].instIdx]
         /\ instLen'[th[t].instIdx] = instLen[th[t].instIdx]]_vars

\* instance record i is complete: its vector is allocated and not freed, its
\* len is at least 1 and is the number of block references of the vector, and
\* every reference is to an allocated block
InstanceValid(i) ==
  /\ VectorLive(i)
  /\ instLen[i] >= 1
  /\ Len(vectors[instBlocks[i]].blk) = instLen[i]
  /\ \A k \in 1 .. instLen[i] : vectors[instBlocks[i]].blk[k] \in 1 .. Len(blockMem)

\* C17: in every state currentInstanceIdx is 0 or 1 and names a complete
\* instance record, and a step that changes currentInstanceIdx finds the
\* blocks and the len of the new instance already written and leaves them.
C17_CurrentInstanceValid ==
  /\ [](currentInstanceIdx \in {0, 1} /\ InstanceValid(currentInstanceIdx))
  /\ [][SwapStep =>
         /\ InstanceValid(currentInstanceIdx')
         /\ instBlocks' = instBlocks
         /\ instLen' = instLen
         /\ vectors' = vectors]_vars

\* two grows have happened: instance 0 is current again, with its third
\* vector, and the vector of instance 1 has been freed
C17_Witness ==
  /\ currentInstanceIdx = 0
  /\ instLen[0] = MaxBlock + 1
  /\ instBlocks[0] = 3
  /\ ~ vectors[2].live

\* the labels of the grow branch before the store to currentInstanceIdx
BeforeSwap == {"w_delta", "w_build", "w_len", "w_swap"}

C19_WriterOwnNodeIdle ==
  /\ STATUS_IDLE \notin {0, 1}
  /\ \A t \in Threads :
       writeLock = t => nodes[reader_tls[t]].status = STATUS_IDLE

\* C20: every node bound to a thread is reachable from tls_list; no step
\* removes a node from the roster or changes the next pointer of a roster
\* node; a writer's scan starts at the head, moves from a node only to that
\* node's next and ends only at the end of the list; so during the scan a
\* roster node with status equal to the old index is still ahead of the scan
\* pointer, unless a thread bound to it is still inside the loop of
\* acquireRead.
C20_RosterLosesNoNode ==
  /\ [](/\ \A t \in Threads : reader_tls[t] # NULL => reader_tls[t] \in RosterNodes
        /\ \A w \in Threads : th[w].pc = "w_scan" =>
             /\ th[w].curr \in RosterNodes
             /\ \A n \in RosterNodes :
                  nodes[n].status = th[w].wIdx =>
                    \/ n \in ReachFrom(th[w].curr)
                    \/ \E t \in Threads :
                         reader_tls[t] = n /\ LoopingOn(t, th[w].wIdx))
  /\ [][/\ RosterNodes \subseteq RosterNodes'
        /\ \A n \in RosterNodes : nodes'[n].next = nodes[n].next
        /\ \A w \in Threads :
             /\ (th[w].pc = "w_scan_first" /\ th'[w] # th[w]) =>
                   th'[w].curr = tls_list
             /\ (th[w].pc = "w_scan" /\ th'[w] # th[w]) =>
                   /\ th'[w].curr = nodes[th[w].curr].next
                   /\ (th'[w].pc = "w_free") = (nodes[th[w].curr].next = NULL)]_vars

\* a writer is scanning a roster of two nodes while a third thread's
\* compare-and-swap on tls_list has failed
C20_Witness ==
  /\ Cardinality(RosterNodes) = 2
  /\ \E w \in Threads : th[w].pc = "w_scan"
  /\ \E t \in Threads : th[t].pc = "tls_retry"

=============================================================================
